---- MODULE Spec2Model ----
(***************************************************************************)
(* State-machine model of the eotest sensor analysis code:                 *)
(*   - PsfGaussFit            (src/fe55_psf.py)                            *)
(*   - MaskedCCD              (src/python/lsst/eotest/sensor/MaskedCCD.py) *)
(*   - NonlinearityCorrection (.../sensor/NonlinearityCorrection.py)       *)
(*   - CCD_bias_PCA           (.../sensor/ccd_bias_pca.py)                 *)
(*   - AmplifierGeometry      (.../sensor/AmplifierGeometry.py)            *)
(*   - the bright pixels task (src/pipeline/bright_pixels_task.py)         *)
(* Every component has its own specification; the variables of the other   *)
(* components are parked in a constructed state and left unchanged.        *)
(***************************************************************************)
EXTENDS Integers, Sequences, FiniteSets, TLC

VARIABLES
    fitter,     \* PsfGaussFit object: min_npix, sigma, dn, chiprob, output
    frame,      \* locals of the running process_image call
    psf_pc,     \* "idle" | "loop" | "raised": position of process_image
    psf_hist,   \* history: fitter state at call entry, footprints handled,
                \* what the last results() call returned
    ccd,        \* MaskedCCD object: image, mask, stat_ctrl
    mccd_ret,   \* what the last MaskedCCD method returned
    mccd_hist,  \* history: last MaskedCCD call, the state before it, files added,
                \* what imutils.bias_image did, subtractions made
    nlc,        \* NonlinearityCorrection object: profiles and _spline_dict
    nlc_call,   \* the last call on nlc: op, amp, adu
    nlc_ret,    \* what that call returned or raised
    repair,     \* the last defect_repair call: arguments and returned mask
    pca,        \* CCD_bias_PCA object: attributes and the per-amp dict entries
    pca_pc,     \* "idle" | "amps" | "fitted" | "pickle": position of compute_pcas
    pca_frame,  \* arguments and locals of the running compute_pcas call
    pca_hist,   \* history: the xstart given at construction, the last sensor
    bias_pca,   \* CCD_bias_PCA object that make_bias_frame is called on
    fs,         \* files on disk: name -> image HDUs by amp
    mbf,        \* arguments, locals and position of the make_bias_frame call
    geom_args,  \* arguments an AmplifierGeometry is constructed with
    geom,       \* the AmplifierGeometry constructed from them, None before
    bpt         \* the bright pixels task: position, locals, results, event log

psfVars == <<fitter, frame, psf_pc, psf_hist>>
maskVars == <<ccd, mccd_ret, mccd_hist>>

nlcVars == <<nlc, nlc_call, nlc_ret>>
repairVars == <<repair>>
pcaVars == <<pca, pca_pc, pca_frame, pca_hist>>
biasVars == <<bias_pca, fs, mbf>>
geomVars == <<geom_args, geom>>
brightVars == <<bpt>>

\* What the operations of one component leave alone.
notPsf == <<maskVars, nlcVars, repairVars, pcaVars, biasVars, geomVars, brightVars>>
notMask == <<psfVars, nlcVars, repairVars, pcaVars, biasVars, geomVars, brightVars>>
notNlc == <<psfVars, maskVars, repairVars, pcaVars, biasVars, geomVars, brightVars>>
notRepair == <<psfVars, maskVars, nlcVars, pcaVars, biasVars, geomVars, brightVars>>
notPca == <<psfVars, maskVars, nlcVars, repairVars, biasVars, geomVars, brightVars>>
notBias == <<psfVars, maskVars, nlcVars, repairVars, pcaVars, geomVars, brightVars>>
notGeom == <<psfVars, maskVars, nlcVars, repairVars, pcaVars, biasVars, brightVars>>
notBright == <<psfVars, maskVars, nlcVars, repairVars, pcaVars, biasVars, geomVars>>

vars == <<fitter, frame, psf_pc, psf_hist, ccd, mccd_ret, mccd_hist,
          nlc, nlc_call, nlc_ret, repair, pca, pca_pc, pca_frame, pca_hist,
          bias_pca, fs, mbf,
          geom_args, geom,
          bpt>>

(***************************************************************************)
(* Bounds of the model.                                                    *)
(***************************************************************************)
MaxFootprints == 2      \* footprints detected in one segment
MaxImages == 2          \* process_image calls that complete
NumMaskAmps == 2        \* amplifiers of a MaskedCCD (imutils.allAmps)
NumMaskPix == 2         \* pixels of one amplifier segment
NumMaskFiles == 3       \* mask files that exist
NlcBins == 5            \* bins of a nonlinearity profile (nprofile_bins)
NumRepairPix == 4       \* pixels of the image row given to defect_repair
MaxFrames == 2          \* bias frames (fits_files) given to compute_pcas
NumPcaAmps == 2         \* amplifiers of the CCD (imutils.allAmps(file))
MaxBiasCalls == 1       \* make_bias_frame calls
MaxSubtractions == 2    \* bias_subtracted_image calls that subtract
NumBrightAmps == 3      \* amplifiers of the sensor (imutils.allAmps)
MaxBrightCount == 3     \* bright pixels found in one segment

(***************************************************************************)
(* PsfGaussFit                                                             *)
(***************************************************************************)
DefaultMinNpix == 5

\* Number of pixels a detected footprint can have.
NpixValues == (DefaultMinNpix - 1) .. (DefaultMinNpix + 1)


\* What a converged fit yields: pars = (x0, y0, sigma, DN) and the chi-square
\* probability (in percent).
FitResults == { [pars |-> <<1, 1, 3, 300>>, prob |-> 5],
                [pars |-> <<2, 5, 4, 320>>, prob |-> 10],
                [pars |-> <<7, 2, 3, 310>>, prob |-> 50] }

PrimaryHDU == [name |-> 0, XPOS |-> <<>>, YPOS |-> <<>>, SIGMA |-> <<>>,
               DN |-> <<>>, CHIPROB |-> <<>>]

\* PsfGaussFit.__init__
NewPsfGaussFit(min_npix) ==
    [min_npix |-> min_npix, sigma |-> <<>>, dn |-> <<>>, chiprob |-> <<>>,
     output |-> <<PrimaryHDU>>]

NoFrame == [amp |-> 0, nfp |-> 0, i |-> 0, x0 |-> <<>>, y0 |-> <<>>,
            sigma |-> <<>>, dn |-> <<>>, chiprob |-> <<>>]

NoHist == [pre |-> NewPsfGaussFit(DefaultMinNpix), nfp |-> 0, handled |-> 0,
           rows |-> <<>>, failed |-> FALSE, done |-> FALSE, results |-> <<>>]

PsfInit ==
    /\ \E m \in {DefaultMinNpix, DefaultMinNpix + 1} : fitter = NewPsfGaussFit(m)
    /\ frame = NoFrame
    /\ psf_pc = "idle"
    /\ psf_hist = [NoHist EXCEPT !.pre = fitter]

\* process_image up to the footprint loop: the detection finds nfp footprints.
EnterProcessImage(amp, nfp) ==
    /\ UNCHANGED notPsf
    /\ psf_pc \in {"idle", "raised"}
    /\ Len(fitter.output) <= MaxImages
    /\ frame' = [NoFrame EXCEPT !.amp = amp, !.nfp = nfp]
    /\ psf_pc' = "loop"
    /\ psf_hist' = [NoHist EXCEPT !.pre = fitter, !.nfp = nfp]
    /\ UNCHANGED fitter

\* A footprint with fewer than min_npix pixels: continue.
SkipSmall(npix) ==
    /\ UNCHANGED notPsf
    /\ psf_pc = "loop"
    /\ frame.i < frame.nfp
    /\ npix < fitter.min_npix
    /\ frame' = [frame EXCEPT !.i = @ + 1]
    /\ psf_hist' = [psf_hist EXCEPT !.handled = @ + 1]
    /\ UNCHANGED <<fitter, psf_pc>>

\* FitSucceeds that also appends to the lists of the fitter at once.
FitMutEager(npix, pars, prob) ==
    /\ UNCHANGED notPsf
    /\ psf_pc = "loop"
    /\ frame.i < frame.nfp
    /\ npix >= fitter.min_npix
    /\ frame' = [frame EXCEPT !.i = @ + 1,
                              !.x0 = Append(@, pars[1]),
                              !.y0 = Append(@, pars[2]),
                              !.sigma = Append(@, pars[3]),
                              !.dn = Append(@, pars[4]),
                              !.chiprob = Append(@, prob)]
    /\ fitter' = [fitter EXCEPT !.sigma = Append(@, pars[3]),
                                !.dn = Append(@, pars[4]),
                                !.chiprob = Append(@, prob)]
    /\ psf_hist' = [psf_hist EXCEPT !.handled = @ + 1,
                                    !.rows = Append(@, <<pars, prob>>)]
    /\ UNCHANGED psf_pc

\* The try body ran to its end: one value is appended to every local list.
FitSucceeds(npix, pars, prob) ==
    /\ UNCHANGED notPsf
    /\ psf_pc = "loop"
    /\ frame.i < frame.nfp
    /\ npix >= fitter.min_npix
    /\ frame' = [frame EXCEPT !.i = @ + 1,
                              !.x0 = Append(@, pars[1]),
                              !.y0 = Append(@, pars[2]),
                              !.sigma = Append(@, pars[3]),
                              !.dn = Append(@, pars[4]),
                              !.chiprob = Append(@, prob)]
    /\ psf_hist' = [psf_hist EXCEPT !.handled = @ + 1,
                                    !.rows = Append(@, <<pars, prob>>)]
    /\ UNCHANGED <<fitter, psf_pc>>

\* FitRuntimeError that leaves the loop.
FitMutAbort(npix) ==
    /\ UNCHANGED notPsf
    /\ psf_pc = "loop"
    /\ frame.i < frame.nfp
    /\ npix >= fitter.min_npix
    /\ frame' = [frame EXCEPT !.i = frame.nfp]
    /\ psf_hist' = [psf_hist EXCEPT !.handled = @ + 1, !.failed = TRUE]
    /\ UNCHANGED <<fitter, psf_pc>>

\* curve_fit raised RuntimeError: the except clause passes, the loop goes on.
FitRuntimeError(npix) ==
    /\ UNCHANGED notPsf
    /\ psf_pc = "loop"
    /\ frame.i < frame.nfp
    /\ npix >= fitter.min_npix
    /\ frame' = [frame EXCEPT !.i = @ + 1]
    /\ psf_hist' = [psf_hist EXCEPT !.handled = @ + 1, !.failed = TRUE]
    /\ UNCHANGED <<fitter, psf_pc>>

\* Any other exception is not caught: process_image ends, its locals are lost.
FitOtherError(npix) ==
    /\ UNCHANGED notPsf
    /\ psf_pc = "loop"
    /\ frame.i < frame.nfp
    /\ npix >= fitter.min_npix
    /\ psf_pc' = "raised"
    /\ frame' = NoFrame
    /\ psf_hist' = [psf_hist EXCEPT !.handled = @ + 1]
    /\ UNCHANGED fitter

\* _save_ext_data: one table extension named after the segment.
SaveExtData(out, amp, x0, y0, sigma, dn, chiprob) ==
    Append(out, [name |-> amp, XPOS |-> x0, YPOS |-> y0, SIGMA |-> sigma,
                 DN |-> dn, CHIPROB |-> chiprob])

\* After the loop: save the extension, extend the accumulated lists.
FinishProcessImage ==
    /\ UNCHANGED notPsf
    /\ psf_pc = "loop"
    /\ frame.i = frame.nfp
    /\ fitter' = [fitter EXCEPT
                    !.output = SaveExtData(@, frame.amp, frame.x0, frame.y0,
                                           frame.sigma, frame.dn, frame.chiprob),
                    !.sigma = @ \o frame.sigma,
                    !.dn = @ \o frame.dn,
                    !.chiprob = @ \o frame.chiprob]
    /\ psf_pc' = "idle"
    /\ psf_hist' = [psf_hist EXCEPT !.done = TRUE]
    /\ frame' = NoFrame

\* Probabilities are in percent: the default min_prob=0.1 is 10.
DefaultMinProb == 10

MinProbValues == {DefaultMinProb, 5}

\* np.where(chiprob > min_prob) with >= for >.
WhereMutGeq(chiprob, min_prob, i) ==
    { j \in i..Len(chiprob) : chiprob[j] >= min_prob }

\* np.where(chiprob > min_prob): the indices from i on, as a set; the arrays
\* are indexed with them in increasing order.
Where(chiprob, min_prob, i) ==
    { j \in i..Len(chiprob) : chiprob[j] > min_prob }

\* arr[indx]: the entries of arr at the indices of indx, in index order.
RECURSIVE Take(_, _, _)
Take(arr, indx, i) ==
    IF i > Len(arr) THEN <<>>
    ELSE (IF i \in indx THEN <<arr[i]>> ELSE <<>>) \o Take(arr, indx, i + 1)

\* PsfGaussFit.results(min_prob).  np.array(..., dtype=np.float) of the
\* accumulated Python floats keeps every value.
results(self, min_prob) ==
    LET indx == Where(self.chiprob, min_prob, 1)
    IN  [sigma |-> Take(self.sigma, indx, 1),
         dn |-> Take(self.dn, indx, 1),
         chiprob |-> Take(self.chiprob, indx, 1)]

\* A results() call between process_image calls.
Results(min_prob) ==
    /\ UNCHANGED notPsf
    /\ psf_pc \in {"idle", "raised"}
    /\ psf_hist' = [psf_hist EXCEPT
                      !.results = <<[min_prob |-> min_prob,
                                     ret |-> results(fitter, min_prob)]>>]
    /\ UNCHANGED <<fitter, frame, psf_pc>>

NextPsf ==
    \/ \E nfp \in 0..MaxFootprints : EnterProcessImage(Len(fitter.output), nfp)
    \/ \E npix \in NpixValues : SkipSmall(npix)
    \/ \E npix \in NpixValues, fit \in FitResults :
          FitSucceeds(npix, fit.pars, fit.prob)
    \/ \E npix \in NpixValues : FitRuntimeError(npix)
    \/ \E npix \in NpixValues : FitOtherError(npix)
    \/ FinishProcessImage
    \/ \E min_prob \in MinProbValues : Results(min_prob)

(***************************************************************************)
(* MaskedCCD                                                               *)
(***************************************************************************)
RECURSIVE Pow2(_)
Pow2(n) == IF n = 0 THEN 1 ELSE 2 * Pow2(n - 1)

\* Bitwise or of two mask words (the | and |= of the code).
RECURSIVE BitOr(_, _)
BitOr(a, b) ==
    IF a = 0 THEN b
    ELSE IF b = 0 THEN a
    ELSE (IF a % 2 = 1 \/ b % 2 = 1 THEN 1 ELSE 0) + 2 * BitOr(a \div 2, b \div 2)

\* The mask planes, in plane order: plane k has bit 2^(k-1).
PlaneNames == <<"BAD", "SAT", "CCD250_DEFECTS">>

\* self[amp].getMask().getMaskPlaneDict(): plane name -> plane number.
mask_plane_dict == [k \in 1..Len(PlaneNames) |-> k - 1]

PlaneOf(name) == CHOOSE k \in 1..Len(PlaneNames) : PlaneNames[k] = name

\* afwImage.MaskU.getPlaneBitMask(mask_name)
getPlaneBitMask(name) == Pow2(mask_plane_dict[PlaneOf(name)])

MaskAmps == 1..NumMaskAmps
MaskPix == 1..NumMaskPix
MaskFiles == 1..NumMaskFiles

\* Pixel data of the image file, per amplifier.
ImageData == [a \in MaskAmps |-> [p \in MaskPix |-> 100 * a + p]]

\* afwImage.MaskU(mask_file, dm_hdu(amp)): the mask word of each pixel of the
\* amplifier's HDU in mask file f.
FileMask(f, a, p) == (3 * f + a + 2 * p) % Pow2(Len(PlaneNames))

\* The and-mask of a new afwMath.StatisticsControl().
DefaultAndMask == 0

\* add_masks that replaces the masks by the file's.
add_masksMutAssign(c, f) ==
    [c EXCEPT !.mask = [a \in MaskAmps |-> [p \in MaskPix |-> FileMask(f, a, p)]]]

\* add_masks: or the file's mask into the mask of every amplifier.
add_masks(c, f) ==
    [c EXCEPT !.mask = [a \in MaskAmps |->
                          [p \in MaskPix |-> BitOr(c.mask[a][p], FileMask(f, a, p))]]]

\* setMask that ignores clear.
setMaskMutNoClear(c, mask_name, clear) ==
    IF mask_name # "None"
    THEN [c EXCEPT !.stat_ctrl.andMask = BitOr(@, getPlaneBitMask(mask_name))]
    ELSE c

\* setMask that sets the and-mask to the plane's bit.
setMaskMutAssign(c, mask_name, clear) ==
    LET c1 == IF clear THEN [c EXCEPT !.stat_ctrl.andMask = 0] ELSE c
    IN  IF mask_name # "None"
        THEN [c1 EXCEPT !.stat_ctrl.andMask = getPlaneBitMask(mask_name)]
        ELSE c1

\* setMask: the new state of the object (it returns self.stat_ctrl).
setMask(c, mask_name, clear) ==
    LET c1 == IF clear THEN [c EXCEPT !.stat_ctrl.andMask = 0] ELSE c
    IN  IF mask_name # "None"
        THEN [c1 EXCEPT !.stat_ctrl.andMask = BitOr(@, getPlaneBitMask(mask_name))]
        ELSE c1

\* setAllMasks with 2**(len(mpd) - 1).
setAllMasksMutOffByOne(c) ==
    [c EXCEPT !.stat_ctrl.andMask = Pow2(Len(mask_plane_dict) - 1)]

\* setAllMasks: mask_bits = 2**len(mpd) - 1.
setAllMasks(c) ==
    [c EXCEPT !.stat_ctrl.andMask = Pow2(Len(mask_plane_dict)) - 1]

RECURSIVE AddAll(_, _)
AddAll(c, mask_files) ==
    IF mask_files = <<>> THEN c
    ELSE AddAll(add_masks(c, Head(mask_files)), Tail(mask_files))

\* MaskedCCD.__init__(imfile, mask_files)
NewMaskedCCD(mask_files) ==
    LET c0 == [image |-> ImageData,
               mask |-> [a \in MaskAmps |-> [p \in MaskPix |-> 0]]]
        c1 == AddAll(c0, mask_files)
        c2 == [image |-> c1.image, mask |-> c1.mask,
               stat_ctrl |-> [id |-> "stat_ctrl", andMask |-> DefaultAndMask]]
    IN  IF mask_files # <<>> THEN setAllMasks(c2) ELSE c2

Range(s) == { s[k] : k \in 1..Len(s) }

\* The mask_files a MaskedCCD is constructed with: none, one or two files.
CtorMaskFiles ==
    {<<>>} \cup { <<f>> : f \in MaskFiles } \cup { <<f, g>> : f, g \in MaskFiles }

MaskInit ==
    \E mask_files \in CtorMaskFiles :
        /\ ccd = NewMaskedCCD(mask_files)
        /\ mccd_ret = "None"
        /\ mccd_hist = [op |-> "init", name |-> "None", clear |-> FALSE, file |-> 0,
                        pre |-> ccd, pre_added |-> {}, added |-> Range(mask_files),
                        ctor |-> mask_files, amp |-> 0, dm_exc |-> "None",
                        nsub |-> 0]

AddMasks(f) ==
    /\ UNCHANGED notMask
    /\ ccd' = add_masks(ccd, f)
    /\ mccd_ret' = "None"
    /\ mccd_hist' = [mccd_hist EXCEPT !.op = "add_masks", !.name = "None",
                                      !.clear = FALSE, !.file = f, !.pre = ccd,
                                      !.pre_added = mccd_hist.added,
                                      !.added = @ \cup {f}]

SetMask(mask_name, clear) ==
    /\ UNCHANGED notMask
    /\ ccd' = setMask(ccd, mask_name, clear)
    /\ mccd_ret' = ccd'.stat_ctrl.id
    /\ mccd_hist' = [mccd_hist EXCEPT !.op = "setMask", !.name = mask_name,
                                      !.clear = clear, !.file = 0, !.pre = ccd,
                                      !.pre_added = mccd_hist.added]

SetAllMasks ==
    /\ UNCHANGED notMask
    /\ ccd' = setAllMasks(ccd)
    /\ mccd_ret' = ccd'.stat_ctrl.id
    /\ mccd_hist' = [mccd_hist EXCEPT !.op = "setAllMasks", !.name = "None",
                                      !.clear = FALSE, !.file = 0, !.pre = ccd,
                                      !.pre_added = mccd_hist.added]

NextMask ==
    \/ \E f \in MaskFiles : AddMasks(f)
    \/ \E mask_name \in Range(PlaneNames) \cup {"None"}, clear \in BOOLEAN :
          SetMask(mask_name, clear)
    \/ SetAllMasks

\* What imutils.bias_image(self[amp], overscan, fit_order) does: it returns
\* a bias image (here its level), or the DM stack raises.
BiasOutcomes ==
    { [exc |-> "None", level |-> b] : b \in {1, 2} }
    \cup {[exc |-> "LsstCppException", level |-> 0]}

\* Amplifier arguments: the amps of the CCD and one that is not a key.
BiasAmpArgs == MaskAmps \cup {0}

\* MaskedCCD.bias_image(amp): what it raises, what it returns.
bias_image(c, amp, outcome) ==
    IF amp \notin MaskAmps
    THEN [exc |-> "KeyError", val |-> [p \in MaskPix |-> 0]]
    ELSE IF outcome.exc = "LsstCppException"
    THEN [exc |-> "MaskedCCDBiasImageException", val |-> [p \in MaskPix |-> 0]]
    ELSE [exc |-> "None", val |-> [p \in MaskPix |-> outcome.level]]

\* bias_subtracted_image that changes the stored image before bias_image
\* has returned.
bias_subtracted_imageMutEager(c, amp, outcome) ==
    IF amp \notin MaskAmps
    THEN [exc |-> "KeyError", ccd |-> c]
    ELSE LET b == bias_image(c, amp, outcome)
         IN  [exc |-> b.exc,
              ccd |-> [c EXCEPT !.image[amp] = [p \in MaskPix |-> @[p] - 1]]]

\* MaskedCCD.bias_subtracted_image(amp): self[amp] is read, bias_image is
\* called, then the image is subtracted in place and stored.
bias_subtracted_image(c, amp, outcome) ==
    IF amp \notin MaskAmps
    THEN [exc |-> "KeyError", ccd |-> c]
    ELSE LET b == bias_image(c, amp, outcome)
         IN  IF b.exc # "None"
             THEN [exc |-> b.exc, ccd |-> c]
             ELSE [exc |-> "None",
                   ccd |-> [c EXCEPT !.image[amp] =
                                       [p \in MaskPix |-> @[p] - b.val[p]]]]

BiasImage(amp, outcome) ==
    /\ UNCHANGED notMask
    /\ LET r == bias_image(ccd, amp, outcome)
       IN  mccd_ret' = IF r.exc = "None" THEN "bias image" ELSE r.exc
    /\ mccd_hist' = [mccd_hist EXCEPT !.op = "bias_image", !.name = "None",
                                      !.clear = FALSE, !.file = 0, !.pre = ccd,
                                      !.pre_added = mccd_hist.added,
                                      !.amp = amp, !.dm_exc = outcome.exc]
    /\ UNCHANGED ccd

BiasSubtractedImage(amp, outcome) ==
    /\ UNCHANGED notMask
    /\ mccd_hist.nsub < MaxSubtractions
    /\ LET r == bias_subtracted_image(ccd, amp, outcome)
       IN  /\ ccd' = r.ccd
           /\ mccd_ret' = IF r.exc = "None" THEN "self[amp]" ELSE r.exc
           /\ mccd_hist' = [mccd_hist EXCEPT
                              !.op = "bias_subtracted_image", !.name = "None",
                              !.clear = FALSE, !.file = 0, !.pre = ccd,
                              !.pre_added = mccd_hist.added,
                              !.amp = amp, !.dm_exc = outcome.exc,
                              !.nsub = IF r.exc = "None" THEN @ + 1 ELSE @]

NextMaskBias ==
    \/ \E amp \in BiasAmpArgs, outcome \in BiasOutcomes : BiasImage(amp, outcome)
    \/ \E amp \in BiasAmpArgs, outcome \in BiasOutcomes :
          BiasSubtractedImage(amp, outcome)

(***************************************************************************)
(* NonlinearityCorrection                                                  *)
(***************************************************************************)
\* The constructor builds one spline per iamp in range(16).
NumNlcAmps == 16

SplineKeys == 0..(NumNlcAmps - 1)

\* The entries of seq whose mask entry is true: profile_x[mask].
RECURSIVE Masked(_, _)
Masked(seq, mask) ==
    IF seq = <<>> THEN <<>>
    ELSE (IF Head(mask) THEN <<Head(seq)>> ELSE <<>>) \o Masked(Tail(seq), Tail(mask))

\* UnivariateSpline(x, y): the spline object, given by the points it is fit to.
UnivariateSpline(x, y) == [x |-> x, y |-> y]

\* NonlinearityCorrection.__init__(prof_x, prof_y, prof_yerr)
NewNonlinearityCorrection(prof_x, prof_y, prof_yerr) ==
    [_prof_x |-> prof_x, _prof_y |-> prof_y, _prof_yerr |-> prof_yerr,
     _nxbins |-> Len(prof_x[0]),
     _spline_dict |->
        [iamp \in SplineKeys |->
            LET mask == [b \in 1..Len(prof_yerr[iamp]) |-> prof_yerr[iamp][b] >= 0]
            IN  UnivariateSpline(Masked(prof_x[iamp], mask),
                                 Masked(prof_y[iamp], mask))]]

\* __getitem__(amp): self._spline_dict[amp]
NlcGetItem(obj, amp) ==
    IF amp \in DOMAIN obj._spline_dict
    THEN [exc |-> "None", val |-> <<obj._spline_dict[amp]>>]
    ELSE [exc |-> "KeyError", val |-> <<>>]

\* __call__(amp, adu): adu*(1 + self._spline_dict[amp-1](adu)); the value is
\* kept as the term it is computed from, the adu and the spline applied to it.
NlcCall(obj, amp, adu) ==
    IF amp - 1 \in DOMAIN obj._spline_dict
    THEN [exc |-> "None", val |-> <<[adu |-> adu, spline |-> obj._spline_dict[amp - 1]]>>]
    ELSE [exc |-> "KeyError", val |-> <<>>]

\* Profiles as make_profile_hist fills them: bin centres, fractional
\* residuals, and errors (-1. marks a bin with fewer than two entries).
ProfileX == [iamp \in SplineKeys |-> [b \in 1..NlcBins |-> 1000 * b]]
ProfileY(base, step) ==
    [iamp \in SplineKeys |-> [b \in 1..NlcBins |-> base + step * iamp * b]]
ProfileYerr(e) ==
    [iamp \in SplineKeys |->
        [b \in 1..NlcBins |-> IF e > 0 /\ b = ((iamp + e) % NlcBins) + 1 THEN -1 ELSE 1]]

AduValues == {100, 2000}

NlcInit ==
    \E base \in 0..2, step \in 0..1, e \in 0..1 :
        /\ nlc = NewNonlinearityCorrection(ProfileX, ProfileY(base, step), ProfileYerr(e))
        /\ nlc_call = [op |-> "init", amp |-> 0, adu |-> 0]
        /\ nlc_ret = [exc |-> "None", val |-> <<>>]

GetItem(amp) ==
    /\ UNCHANGED notNlc
    /\ nlc_call' = [op |-> "getitem", amp |-> amp, adu |-> 0]
    /\ nlc_ret' = NlcGetItem(nlc, amp)
    /\ UNCHANGED nlc

Call(amp, adu) ==
    /\ UNCHANGED notNlc
    /\ nlc_call' = [op |-> "call", amp |-> amp, adu |-> adu]
    /\ nlc_ret' = NlcCall(nlc, amp, adu)
    /\ UNCHANGED nlc

NextNlc ==
    \/ \E amp \in 0..NumNlcAmps : GetItem(amp)
    \/ \E amp \in 0..NumNlcAmps, adu \in AduValues : Call(amp, adu)

(***************************************************************************)
(* defect_repair                                                           *)
(***************************************************************************)
DefaultSigma == 10
DefaultGrow == 2

RepairPix == 1..NumRepairPix

Abs(v) == IF v < 0 THEN -v ELSE v

\* Background-subtracted pixel values of the row, and the clipped stdev that
\* afwMath.makeStatistics returns for the whole segment the row lies in.
BgSubValues == {-25, 0, 15, 25}
StdevClipValues == {1, 2}

\* defect_repair from the background-subtracted image on: threshold, optional
\* np.abs, footprints of the pixels at or above threshold, grown by `grow`
\* pixels, set in the BAD mask.  Returns the mask of the MaskedArray.
defect_repair(image, stdev, sigma, grow, use_abs_image) ==
    LET threshold == sigma * stdev
        abs_image == [p \in RepairPix |->
                        IF use_abs_image THEN Abs(image[p]) ELSE image[p]]
        detected == { p \in RepairPix : abs_image[p] >= threshold }
    IN  [p \in RepairPix |-> \E q \in detected : Abs(p - q) <= grow]

NoRepair(image, stdev) ==
    [caller |-> "none", image |-> image, stdev |-> stdev,
     sigma |-> DefaultSigma, grow |-> DefaultGrow, use_abs_image |-> FALSE,
     defaults |-> TRUE, mask |-> [p \in RepairPix |-> FALSE]]

RepairParked == repair = NoRepair([p \in RepairPix |-> 0], 1)

\* The image row handed to defect_repair and its clipped stdev.
RepairInit ==
    \E image \in [RepairPix -> BgSubValues], stdev \in StdevClipValues :
        repair = NoRepair(image, stdev)

\* A direct call, with any of the keyword arguments given.
DefectRepair(grow, use_abs_image) ==
    /\ UNCHANGED notRepair
    /\ repair' = [repair EXCEPT
                    !.caller = "direct", !.grow = grow,
                    !.use_abs_image = use_abs_image,
                    !.defaults = (grow = DefaultGrow /\ ~use_abs_image),
                    !.mask = defect_repair(repair.image, repair.stdev, DefaultSigma,
                                           grow, use_abs_image)]

\* get_amp_stack: defect_repair(data, sigma=sigma, nx=nx, ny=ny, grow=grow)
\* with get_amp_stack's own defaults; use_abs_image is not passed.
GetAmpStackRepair ==
    /\ UNCHANGED notRepair
    /\ repair' = [repair EXCEPT
                    !.caller = "get_amp_stack", !.grow = DefaultGrow,
                    !.use_abs_image = FALSE, !.defaults = TRUE,
                    !.mask = defect_repair(repair.image, repair.stdev, DefaultSigma,
                                           DefaultGrow, FALSE)]

\* pca_bias_correction: defect_repair(imarr[yslice, :]), no keyword given.
PcaBiasCorrectionRepair ==
    /\ UNCHANGED notRepair
    /\ repair' = [repair EXCEPT
                    !.caller = "pca_bias_correction", !.grow = DefaultGrow,
                    !.use_abs_image = FALSE, !.defaults = TRUE,
                    !.mask = defect_repair(repair.image, repair.stdev, DefaultSigma,
                                           DefaultGrow, FALSE)]

NextRepair ==
    \/ \E grow \in {0, DefaultGrow}, use_abs_image \in BOOLEAN :
          DefectRepair(grow, use_abs_image)
    \/ GetAmpStackRepair
    \/ PcaBiasCorrectionRepair

(***************************************************************************)
(* AmplifierGeometry                                                       *)
(***************************************************************************)
nsegx == 8
nsegy == 2

\* afwGeom.Box2I(Point2I(minX, minY), Point2I(maxX, maxY)), corners included.
Box2I(minX, minY, maxX, maxY) ==
    [minX |-> minX, minY |-> minY, maxX |-> maxX, maxY |-> maxY]
getBeginX(box) == box.minX
getEndX(box) == box.maxX + 1
getEndY(box) == box.maxY + 1

\* AmplifierGeometry.__init__
AmplifierGeometry(prescan, serial_overscan, parallel_overscan, detxsize, detysize) ==
    LET naxis1 == detxsize \div nsegx
        naxis2 == detysize \div nsegy
        nx == naxis1 - prescan - serial_overscan
        ny == naxis2 - parallel_overscan
    IN  [naxis1 |-> naxis1, naxis2 |-> naxis2, nx |-> nx, ny |-> ny,
         full_segment |-> Box2I(0, 0, naxis1 - 1, naxis2 - 1),
         prescan |-> Box2I(0, 0, prescan - 1, naxis2 - 1),
         imaging |-> Box2I(prescan, 0, nx + prescan - 1, ny - 1),
         serial_overscan |-> Box2I(nx + prescan, 0, naxis1 - 1, naxis2 - 1),
         parallel_overscan |-> Box2I(prescan, naxis2 - parallel_overscan,
                                     naxis1 - serial_overscan, naxis2 - 1)]

\* The two sensor types: e2v = AmplifierGeometry(), itl =
\* AmplifierGeometry(prescan=3, detxsize=4400, detysize=4040).
SensorTypes == {"E2V", "ITL"}

\* makeAmplifierGeometry(fits_files[0]): the geometry of the file's sensor.
makeAmplifierGeometry(sensor) ==
    IF sensor = "ITL" THEN AmplifierGeometry(3, 20, 20, 4400, 4040)
    ELSE AmplifierGeometry(10, 20, 20, 4336, 4044)

(***************************************************************************)
(* CCD_bias_PCA                                                            *)
(***************************************************************************)
\* Python's None is the empty tuple; a value v that is set is <<v>>.
None == <<>>

DefaultStdMax == 10

PcaAmps == 1..NumPcaAmps

\* imutils.allAmps(fits_files[0])
allAmps == [k \in 1..NumPcaAmps |-> k]

\* CCD_bias_PCA.__init__(std_max=10, xstart=None, ncomp_x, ncomp_y)
NewCCD_bias_PCA(std_max, xstart, ncomp) ==
    [std_max |-> std_max, xstart |-> xstart, ncomp_x |-> ncomp, ncomp_y |-> ncomp,
     x_oscan_corner |-> None, y_oscan_corner |-> None,
     pca_bias_file |-> None, mean_amp_cache |-> None,
     items |-> [amp \in PcaAmps |-> None]]

\* seq with v inserted before its first entry greater than v.
RECURSIVE Insert(_, _)
Insert(seq, v) ==
    IF seq = <<>> THEN <<v>>
    ELSE IF v <= Head(seq) THEN <<v>> \o seq
    ELSE <<Head(seq)>> \o Insert(Tail(seq), v)

RECURSIVE Sorted(_)
Sorted(seq) == IF seq = <<>> THEN <<>> ELSE Insert(Sorted(Tail(seq)), Head(seq))

Max(a, b) == IF a >= b THEN a ELSE b

\* 5 * np.percentile(stdevs, 80): linear interpolation between the order
\* statistics around position 0.8*(n-1).
Percentile80x5(stdevs) ==
    LET srt == Sorted(stdevs)
        pos5 == 4 * (Len(stdevs) - 1)
        k == pos5 \div 5
        r == pos5 % 5
    IN  IF r = 0 THEN 5 * srt[k + 1]
        ELSE 5 * srt[k + 1] + r * (srt[k + 2] - srt[k + 1])

\* The noise cut of _compute_amp_pcas, times 5:
\* std_max = max(self.std_max, np.percentile(stdevs, 80)).
StdMaxCutx5(self_std_max, stdevs) == Max(5 * self_std_max, Percentile80x5(stdevs))

RECURSIVE SelectIdx(_, _, _)
SelectIdx(stdevs, cutx5, i) ==
    IF i > Len(stdevs) THEN <<>>
    ELSE (IF 5 * stdevs[i] <= cutx5 THEN <<i>> ELSE <<>>)
         \o SelectIdx(stdevs, cutx5, i + 1)

\* _compute_amp_pcas: the frames (by index in amp_stack) of the training set,
\* given the stdev of each mean-subtracted, corner-subtracted frame.
training_set(self_std_max, stdevs) ==
    SelectIdx(stdevs, StdMaxCutx5(self_std_max, stdevs), 1)

\* PCA(ncomp).fit(profiles of the training set)
PCAfit(ncomp, nsamples) == [ncomp |-> ncomp, nsamples |-> nsamples]

\* Frame stdevs after the me[di]an image and the corner mean are subtracted.
StdevValues == {10, 11, 30}

NoPcaFrame ==
    [sensor |-> "E2V", nframes |-> 0, prefix |-> "", amps |-> <<>>,
     amp |-> 0, stdevs |-> <<>>, training_set |-> <<>>,
     mean_bias_frame |-> [data |-> {}, FILENAME |-> None],
     written |-> <<>>, ret |-> None]

PcaFileName(prefix, kind) == <<prefix, "_pca_bias.", kind>>

PcaInit ==
    \E xstart \in {None, <<5>>} :
        /\ pca = NewCCD_bias_PCA(DefaultStdMax, xstart, 1)
        /\ pca_pc = "idle"
        /\ pca_frame = NoPcaFrame
        /\ pca_hist = [ctor_xstart |-> xstart, sensor |-> None,
                       amps |-> <<>>, pre_items |-> pca.items]

\* compute_pcas, lines 253-259: geometry of fits_files[0], the overscan
\* corner, xstart when it is None, the default amps.
EnterComputePcas(sensor, nframes, prefix, amps) ==
    /\ UNCHANGED notPca
    /\ pca_pc = "idle"
    /\ LET amp_geom == makeAmplifierGeometry(sensor)
       IN  pca' = [pca EXCEPT
                     !.x_oscan_corner = <<getEndX(amp_geom.imaging)>>,
                     !.y_oscan_corner = <<getEndY(amp_geom.imaging)>>,
                     !.xstart = IF @ = None
                                THEN <<getBeginX(amp_geom.imaging)>> ELSE @]
    /\ pca_frame' = [NoPcaFrame EXCEPT
                       !.sensor = sensor, !.nframes = nframes, !.prefix = prefix,
                       !.amps = IF amps = None THEN allAmps ELSE amps[1]]
    /\ pca_pc' = "amps"
    /\ pca_hist' = [pca_hist EXCEPT
                      !.sensor = <<sensor>>,
                      !.amps = IF amps = None THEN allAmps ELSE amps[1],
                      !.pre_items = pca.items]

\* One pass of the amp loop up to the return of _compute_amp_pcas.
ComputeAmpPcas(stdevs) ==
    /\ UNCHANGED notPca
    /\ pca_pc = "amps"
    /\ pca_frame.amps # <<>>
    /\ Len(stdevs) = pca_frame.nframes
    /\ pca_frame' = [pca_frame EXCEPT
                       !.amp = Head(pca_frame.amps),
                       !.stdevs = stdevs,
                       !.training_set = training_set(pca.std_max, stdevs)]
    /\ pca_pc' = "fitted"
    /\ UNCHANGED <<pca, pca_hist>>

\* StoreAmpPcas without the assignment of self[amp].
StoreAmpPcasMutSkip ==
    /\ UNCHANGED notPca
    /\ pca_pc = "fitted"
    /\ pca_frame' = [pca_frame EXCEPT
                       !.amps = Tail(@), !.amp = 0, !.stdevs = <<>>,
                       !.training_set = <<>>,
                       !.mean_bias_frame.data = @ \cup {pca_frame.amp}]
    /\ pca_pc' = "amps"
    /\ UNCHANGED <<pca, pca_hist>>

\* self[amp] = pcax, pcay; mean_bias_frame[amp].data = mean_amp.
StoreAmpPcas ==
    /\ UNCHANGED notPca
    /\ pca_pc = "fitted"
    /\ LET n == Len(pca_frame.training_set)
       IN  pca' = [pca EXCEPT !.items[pca_frame.amp] =
                      <<[pcax |-> PCAfit(pca.ncomp_x, n),
                         pcay |-> PCAfit(pca.ncomp_y, n)]>>]
    /\ pca_frame' = [pca_frame EXCEPT
                       !.amps = Tail(@), !.amp = 0, !.stdevs = <<>>,
                       !.training_set = <<>>,
                       !.mean_bias_frame.data = @ \cup {pca_frame.amp}]
    /\ pca_pc' = "amps"
    /\ UNCHANGED pca_hist

\* After the loop: set self.pca_bias_file, the FILENAME header, write the
\* mean bias frame.
WriteBiasFrame ==
    /\ UNCHANGED notPca
    /\ pca_pc = "amps"
    /\ pca_frame.amps = <<>>
    /\ LET file == PcaFileName(pca_frame.prefix, "fits")
           hdus == [pca_frame.mean_bias_frame EXCEPT !.FILENAME = <<file>>]
       IN  /\ pca' = [pca EXCEPT !.pca_bias_file = <<file>>]
           /\ pca_frame' = [pca_frame EXCEPT
                              !.mean_bias_frame = hdus,
                              !.written = Append(@, [file |-> file, content |-> hdus])]
    /\ pca_pc' = "pickle"
    /\ UNCHANGED pca_hist

\* self.to_pickle(pickle_file); return pickle_file, self.pca_bias_file.
WritePickle ==
    /\ UNCHANGED notPca
    /\ pca_pc = "pickle"
    /\ LET pickle_file == PcaFileName(pca_frame.prefix, "pickle")
       IN  pca_frame' = [pca_frame EXCEPT
                           !.written = Append(@, [file |-> pickle_file, content |-> pca]),
                           !.ret = <<pickle_file, pca.pca_bias_file[1]>>]
    /\ pca_pc' = "idle"
    /\ UNCHANGED <<pca, pca_hist>>

AmpsArgs == {None} \cup { <<(<<a>>)>> : a \in PcaAmps } \cup {<<allAmps>>}

NextPca ==
    \/ \E sensor \in SensorTypes, nframes \in 1..MaxFrames, prefix \in {"p", "q"},
          amps \in AmpsArgs : EnterComputePcas(sensor, nframes, prefix, amps)
    \/ \E stdevs \in UNION { [1..n -> StdevValues] : n \in 1..MaxFrames } :
          ComputeAmpPcas(stdevs)
    \/ StoreAmpPcas
    \/ WriteBiasFrame
    \/ WritePickle

(***************************************************************************)
(* CCD_bias_PCA.make_bias_frame                                            *)
(***************************************************************************)
\* Pixel data of one HDU are a term: a sequence of integers in prefix form.
\* A raw segment is <<v>>; the operations put their code in front.
OpBias == 0 - 1     \* pca_bias_correction(amp, image_array)
OpMinus == 0 - 2    \* a - b
OpFloat == 0 - 3    \* astype('float'), np.array(..., dtype=float)

Float(a) == <<OpFloat>> \o a
Minus(a, b) == <<OpMinus, Len(a)>> \o a \o b

\* Files make_bias_frame can be given, and the file of the mean bias frame.
BiasFileArgs == {"raw.fits", "out.fits", "res.fits"}
PcaBiasFile == "pca_bias.fits"
BiasFileNames == BiasFileArgs \cup {PcaBiasFile}

\* A file that does not exist; a FITS file is its image HDUs, by amp.
NoFile == <<>>

\* CCD_bias_PCA.read_model(pca_model_file, pca_bias_file): the pickled object
\* of a compute_pcas call on the given amps, with pca_bias_file set.
read_model(sensor, fitted, pca_bias_file) ==
    LET amp_geom == makeAmplifierGeometry(sensor)
    IN  [NewCCD_bias_PCA(DefaultStdMax, None, 1) EXCEPT
           !.x_oscan_corner = <<getEndX(amp_geom.imaging)>>,
           !.y_oscan_corner = <<getEndY(amp_geom.imaging)>>,
           !.xstart = <<getBeginX(amp_geom.imaging)>>,
           !.pca_bias_file = <<pca_bias_file>>,
           !.items = [amp \in PcaAmps |->
                        IF amp \in fitted
                        THEN <<[pcax |-> PCAfit(1, 1), pcay |-> PCAfit(1, 1)]>>
                        ELSE None]]

\* pca_bias_correction(amp, image_array): what it raises, what it returns,
\* and the object afterwards (the mean_amp cache holds the last amp).
pca_bias_correction(self, files, amp, image_array) ==
    IF self.items[amp] = None
    THEN [exc |-> "KeyError", val |-> <<>>, self |-> self]
    ELSE LET hit == /\ self.mean_amp_cache # None
                    /\ self.mean_amp_cache[1].amp = amp
             mean_amp == IF hit THEN self.mean_amp_cache[1].mean_amp
                         ELSE Float(files[self.pca_bias_file[1]][amp])
         IN  [exc |-> "None",
              val |-> <<OpBias, amp, Len(mean_amp)>> \o mean_amp \o image_array,
              self |-> [self EXCEPT !.mean_amp_cache =
                                       <<[amp |-> amp, mean_amp |-> mean_amp]>>]]

NoBiasFrame ==
    [pc |-> "idle", raw_file |-> "", outfile |-> "", residuals_file |-> None,
     amps_arg |-> <<>>, amps |-> <<>>, hdus |-> NoFile, resids |-> NoFile,
     bias |-> NoFile, written |-> <<>>, exc |-> "None", returned |-> FALSE,
     ncalls |-> 0, pre_fs |-> [f \in BiasFileNames |-> NoFile]]

BiasParked ==
    /\ bias_pca = read_model("E2V", PcaAmps, PcaBiasFile)
    /\ fs = [f \in BiasFileNames |-> NoFile]
    /\ mbf = NoBiasFrame

\* A raw file and the mean bias frame exist; the PCA model was fitted on all
\* amps or on the first one only.
BiasInit ==
    \E sensor \in SensorTypes, fitted \in {PcaAmps, {1}} :
        /\ bias_pca = read_model(sensor, fitted, PcaBiasFile)
        /\ fs = [f \in BiasFileNames |->
                   IF f = "raw.fits" THEN [amp \in PcaAmps |-> <<amp>>]
                   ELSE IF f = PcaBiasFile THEN [amp \in PcaAmps |-> <<10 * amp>>]
                   ELSE NoFile]
        /\ mbf = NoBiasFrame

\* make_bias_frame, lines 521-523: the default amps, raw_file opened.
EnterMakeBiasFrame(raw_file, outfile, residuals_file, amps) ==
    /\ UNCHANGED notBias
    /\ mbf.pc = "idle"
    /\ mbf.ncalls < MaxBiasCalls
    /\ fs[raw_file] # NoFile
    /\ LET a == IF amps = None THEN allAmps ELSE amps[1]
       IN  mbf' = [NoBiasFrame EXCEPT
                     !.pc = "correct", !.raw_file = raw_file, !.outfile = outfile,
                     !.residuals_file = residuals_file,
                     !.amps_arg = a, !.amps = a, !.hdus = fs[raw_file],
                     !.ncalls = mbf.ncalls + 1, !.pre_fs = fs]
    /\ UNCHANGED <<bias_pca, fs>>

\* hdus[amp].data = self.pca_bias_correction(amp, hdus[amp].data)
CorrectAmp ==
    /\ UNCHANGED notBias
    /\ mbf.pc = "correct"
    /\ mbf.amps # <<>>
    /\ LET amp == Head(mbf.amps)
           r == pca_bias_correction(bias_pca, fs, amp, mbf.hdus[amp])
       IN  /\ r.exc = "None"
           /\ bias_pca' = r.self
           /\ mbf' = [mbf EXCEPT !.amps = Tail(@), !.hdus[amp] = r.val]
    /\ UNCHANGED fs

\* self[amp] raises KeyError for an amp without a model; nothing is written.
CorrectAmpKeyError ==
    /\ UNCHANGED notBias
    /\ mbf.pc = "correct"
    /\ mbf.amps # <<>>
    /\ LET amp == Head(mbf.amps)
           r == pca_bias_correction(bias_pca, fs, amp, mbf.hdus[amp])
       IN  /\ r.exc # "None"
           /\ mbf' = [mbf EXCEPT !.pc = "idle", !.exc = r.exc, !.hdus = NoFile]
    /\ UNCHANGED <<bias_pca, fs>>

\* fitsWriteto(hdus, outfile, overwrite=True); then, when residuals_file is
\* given, raw_file and outfile are opened again.
WriteOutfile ==
    /\ UNCHANGED notBias
    /\ mbf.pc = "correct"
    /\ mbf.amps = <<>>
    /\ fs' = [fs EXCEPT ![mbf.outfile] = mbf.hdus]
    /\ LET w == Append(mbf.written, [file |-> mbf.outfile, content |-> mbf.hdus])
       IN  mbf' = IF mbf.residuals_file = None
                  THEN [mbf EXCEPT !.pc = "idle", !.returned = TRUE,
                                   !.written = w, !.hdus = NoFile]
                  ELSE [mbf EXCEPT !.pc = "resids", !.written = w, !.hdus = NoFile,
                                   !.amps = mbf.amps_arg,
                                   !.resids = fs'[mbf.raw_file],
                                   !.bias = fs'[mbf.outfile]]
    /\ UNCHANGED bias_pca

\* SubtractAmp with the operands exchanged.
SubtractAmpMutSwapped ==
    /\ UNCHANGED notBias
    /\ mbf.pc = "resids"
    /\ mbf.amps # <<>>
    /\ LET amp == Head(mbf.amps)
       IN  mbf' = [mbf EXCEPT
                     !.amps = Tail(@),
                     !.resids[amp] = Minus(mbf.bias[amp], Float(mbf.resids[amp]))]
    /\ UNCHANGED <<bias_pca, fs>>

\* resids[amp].data = np.array(resids[amp].data, dtype=float) - bias[amp].data
SubtractAmp ==
    /\ UNCHANGED notBias
    /\ mbf.pc = "resids"
    /\ mbf.amps # <<>>
    /\ LET amp == Head(mbf.amps)
       IN  mbf' = [mbf EXCEPT
                     !.amps = Tail(@),
                     !.resids[amp] = Minus(Float(mbf.resids[amp]), mbf.bias[amp])]
    /\ UNCHANGED <<bias_pca, fs>>

\* resids.writeto(residuals_file, overwrite=True)
WriteResiduals ==
    /\ UNCHANGED notBias
    /\ mbf.pc = "resids"
    /\ mbf.amps = <<>>
    /\ fs' = [fs EXCEPT ![mbf.residuals_file[1]] = mbf.resids]
    /\ mbf' = [mbf EXCEPT
                 !.pc = "idle", !.returned = TRUE,
                 !.written = Append(@, [file |-> mbf.residuals_file[1],
                                        content |-> mbf.resids]),
                 !.resids = NoFile, !.bias = NoFile]
    /\ UNCHANGED bias_pca

\* amps arguments: None, lists of amps, a list that names an amp twice.
BiasAmpsArgs == AmpsArgs \cup {<< <<1, 1>> >>}

NextBias ==
    \/ \E raw_file \in BiasFileArgs, outfile \in BiasFileArgs,
          residuals_file \in {None} \cup { <<f>> : f \in BiasFileArgs },
          amps \in BiasAmpsArgs :
          EnterMakeBiasFrame(raw_file, outfile, residuals_file, amps)
    \/ CorrectAmp
    \/ CorrectAmpKeyError
    \/ WriteOutfile
    \/ SubtractAmp
    \/ WriteResiduals

(***************************************************************************)
(* AmplifierGeometry, constructed from given sizes                         *)
(***************************************************************************)
\* Arguments of AmplifierGeometry(...): the defaults (e2v), the ITL values
\* and small ones.
PrescanValues == {1, 2, 3, 10}
OverscanValues == {1, 2, 20}
DetSizes == { <<4336, 4044>>, <<4400, 4040>>, <<256, 64>> }

GeomInit ==
    /\ \E prescan \in PrescanValues, serial_overscan \in OverscanValues,
          parallel_overscan \in OverscanValues, det \in DetSizes :
          geom_args = [prescan |-> prescan, serial_overscan |-> serial_overscan,
                       parallel_overscan |-> parallel_overscan,
                       detxsize |-> det[1], detysize |-> det[2]]
    /\ geom = None

GeomParked ==
    /\ geom_args = [prescan |-> 10, serial_overscan |-> 20,
                    parallel_overscan |-> 20, detxsize |-> 4336, detysize |-> 4044]
    /\ geom = None

\* geom = AmplifierGeometry(prescan, serial_overscan, parallel_overscan,
\*                          detxsize, detysize)
ConstructGeometry ==
    /\ UNCHANGED notGeom
    /\ geom = None
    /\ geom' = <<AmplifierGeometry(geom_args.prescan, geom_args.serial_overscan,
                                   geom_args.parallel_overscan,
                                   geom_args.detxsize, geom_args.detysize)>>
    /\ UNCHANGED geom_args

NextGeom ==
    \/ ConstructGeometry

(***************************************************************************)
(* The bright pixels task (src/pipeline/bright_pixels_task.py)             *)
(***************************************************************************)
\* imutils.allAmps
BrightAmps == [k \in 1..NumBrightAmps |-> k]

\* len(pixels) of one generate_mask call
BrightCounts == 0..MaxBrightCount

\* The script before its first statement that acts: nothing computed,
\* nothing written, no result recorded.
NewBrightPixelsTask ==
    [pc |-> "start", i |-> 1, median_images |-> {}, total_bright_pixels |-> 0,
     seg_results |-> <<>>, ccd_results |-> <<>>, events |-> <<>>]

BrightInit == bpt = NewBrightPixelsTask

BrightParked == bpt = NewBrightPixelsTask

\* imutils.check_temperatures(dark_files, args.temp_tol): it returns or raises.
CheckTemperatures(ok) ==
    /\ UNCHANGED notBright
    /\ bpt.pc = "start"
    /\ bpt' = [bpt EXCEPT !.pc = IF ok THEN "medians" ELSE "failed"]

\* median_images[amp] = imutils.fits_median(dark_files, imutils.dm_hdu(amp))
ComputeMedian ==
    /\ UNCHANGED notBright
    /\ bpt.pc = "medians"
    /\ bpt.i <= Len(BrightAmps)
    /\ bpt' = [bpt EXCEPT
                 !.median_images = @ \cup {BrightAmps[bpt.i]},
                 !.i = @ + 1,
                 !.events = Append(@, [ev |-> "median", amp |-> BrightAmps[bpt.i],
                                       val |-> 0])]

\* _writeFits(median_images, medfile, md): one image HDU per amp.
WriteMedianFile ==
    /\ UNCHANGED notBright
    /\ bpt.pc = "medians"
    /\ bpt.i > Len(BrightAmps)
    /\ bpt' = [bpt EXCEPT
                 !.pc = "construct",
                 !.events = Append(@, [ev |-> "write_median", amp |-> 0,
                                       val |-> Cardinality(bpt.median_images)])]

\* bright_pixels = BrightPixels(medfile, ...); total_bright_pixels = 0
ConstructBrightPixels ==
    /\ UNCHANGED notBright
    /\ bpt.pc = "construct"
    /\ bpt' = [bpt EXCEPT !.pc = "masks", !.i = 1, !.total_bright_pixels = 0]

\* One pass of the mask loop that records the segment result but does not
\* add the count to the total.
GenerateMaskMutNoSum(count) ==
    /\ UNCHANGED notBright
    /\ bpt.pc = "masks"
    /\ bpt.i <= Len(BrightAmps)
    /\ LET amp == BrightAmps[bpt.i]
       IN  bpt' = [bpt EXCEPT
                     !.i = @ + 1,
                     !.seg_results = Append(@, [amp |-> amp, name |-> "numBrightPixels",
                                                value |-> count]),
                     !.events = @ \o <<[ev |-> "generate_mask", amp |-> amp, val |-> count],
                                       [ev |-> "seg_result", amp |-> amp, val |-> count]>>]

\* One pass of the mask loop: generate_mask(amp, gains[amp], outfile),
\* count = len(pixels), total_bright_pixels += count,
\* sensor.add_seg_result(amp, 'numBrightPixels', count).
GenerateMask(count) ==
    /\ UNCHANGED notBright
    /\ bpt.pc = "masks"
    /\ bpt.i <= Len(BrightAmps)
    /\ LET amp == BrightAmps[bpt.i]
       IN  bpt' = [bpt EXCEPT
                     !.i = @ + 1,
                     !.total_bright_pixels = @ + count,
                     !.seg_results = Append(@, [amp |-> amp, name |-> "numBrightPixels",
                                                value |-> count]),
                     !.events = @ \o <<[ev |-> "generate_mask", amp |-> amp, val |-> count],
                                       [ev |-> "seg_result", amp |-> amp, val |-> count]>>]

\* generate_mask raises: the script ends there.
GenerateMaskFails ==
    /\ UNCHANGED notBright
    /\ bpt.pc = "masks"
    /\ bpt.i <= Len(BrightAmps)
    /\ bpt' = [bpt EXCEPT
                 !.pc = "failed",
                 !.events = Append(@, [ev |-> "generate_mask",
                                       amp |-> BrightAmps[bpt.i], val |-> 0])]

\* sensor.add_ccd_result('numBrightPixels', total_bright_pixels)
AddCcdResult ==
    /\ UNCHANGED notBright
    /\ bpt.pc = "masks"
    /\ bpt.i > Len(BrightAmps)
    /\ bpt' = [bpt EXCEPT
                 !.pc = "done",
                 !.ccd_results = Append(@, [name |-> "numBrightPixels",
                                            value |-> bpt.total_bright_pixels]),
                 !.events = Append(@, [ev |-> "ccd_result", amp |-> 0,
                                       val |-> bpt.total_bright_pixels])]

NextBright ==
    \/ \E ok \in BOOLEAN : CheckTemperatures(ok)
    \/ ComputeMedian
    \/ WriteMedianFile
    \/ ConstructBrightPixels
    \/ \E count \in BrightCounts : GenerateMask(count)
    \/ GenerateMaskFails
    \/ AddCcdResult

(***************************************************************************)
(* Specifications                                                          *)
(***************************************************************************)
PsfParked ==
    /\ fitter = NewPsfGaussFit(DefaultMinNpix)
    /\ frame = NoFrame
    /\ psf_pc = "idle"
    /\ psf_hist = NoHist

MaskParked ==
    /\ ccd = NewMaskedCCD(<<>>)
    /\ mccd_ret = "None"
    /\ mccd_hist = [op |-> "init", name |-> "None", clear |-> FALSE, file |-> 0,
                    pre |-> ccd, pre_added |-> {}, added |-> {}, ctor |-> <<>>,
                    amp |-> 0, dm_exc |-> "None", nsub |-> 0]

NlcParked ==
    /\ nlc = NewNonlinearityCorrection(ProfileX, ProfileY(0, 0), ProfileYerr(0))
    /\ nlc_call = [op |-> "init", amp |-> 0, adu |-> 0]
    /\ nlc_ret = [exc |-> "None", val |-> <<>>]

PcaParked ==
    /\ pca = NewCCD_bias_PCA(DefaultStdMax, None, 1)
    /\ pca_pc = "idle"
    /\ pca_frame = NoPcaFrame
    /\ pca_hist = [ctor_xstart |-> None, sensor |-> None,
                   amps |-> <<>>, pre_items |-> pca.items]

InitPsf == PsfInit /\ MaskParked /\ NlcParked /\ RepairParked /\ PcaParked /\ BiasParked /\ GeomParked /\ BrightParked
SpecPsf == InitPsf /\ [][NextPsf]_vars

InitMask == MaskInit /\ PsfParked /\ NlcParked /\ RepairParked /\ PcaParked /\ BiasParked /\ GeomParked /\ BrightParked
SpecMask == InitMask /\ [][NextMask]_vars
SpecMaskBias == InitMask /\ [][NextMaskBias]_vars

InitNlc == NlcInit /\ PsfParked /\ MaskParked /\ RepairParked /\ PcaParked /\ BiasParked /\ GeomParked /\ BrightParked
SpecNlc == InitNlc /\ [][NextNlc]_vars

InitRepair == RepairInit /\ PsfParked /\ MaskParked /\ NlcParked /\ PcaParked /\ BiasParked /\ GeomParked /\ BrightParked
SpecRepair == InitRepair /\ [][NextRepair]_vars

InitPca == PcaInit /\ PsfParked /\ MaskParked /\ NlcParked /\ RepairParked /\ BiasParked /\ GeomParked /\ BrightParked
SpecPca == InitPca /\ [][NextPca]_vars

InitBias == BiasInit /\ MaskParked /\ NlcParked /\ RepairParked /\ PcaParked /\ PsfParked /\ GeomParked /\ BrightParked
SpecBias == InitBias /\ [][NextBias]_vars

InitGeom == GeomInit /\ MaskParked /\ NlcParked /\ RepairParked /\ PcaParked /\ BiasParked /\ PsfParked /\ BrightParked
SpecGeom == InitGeom /\ [][NextGeom]_vars

InitBright == BrightInit /\ MaskParked /\ NlcParked /\ RepairParked /\ PcaParked /\ BiasParked /\ GeomParked /\ PsfParked
SpecBright == InitBright /\ [][NextBright]_vars

(***************************************************************************)
(* Claims about PsfGaussFit (checked under SpecPsf)                        *)
(***************************************************************************)
Column(rows, k) == [j \in 1..Len(rows) |-> rows[j][1][k]]
ProbColumn(rows) == [j \in 1..Len(rows) |-> rows[j][2]]

LastExt == fitter.output[Len(fitter.output)]

\* C1: a footprint whose fit raises RuntimeError adds no value to any of the
\* five columns; the loop still handles every footprint of the segment; each
\* footprint of at least min_npix pixels whose fit converges adds exactly one
\* row; and the call still appends the segment's extension (with these rows).
C1_FitFailureSkipsFootprint ==
    /\ psf_pc = "loop" =>
          /\ frame.x0 = Column(psf_hist.rows, 1)
          /\ frame.y0 = Column(psf_hist.rows, 2)
          /\ frame.sigma = Column(psf_hist.rows, 3)
          /\ frame.dn = Column(psf_hist.rows, 4)
          /\ frame.chiprob = ProbColumn(psf_hist.rows)
    /\ (psf_pc = "idle" /\ psf_hist.done /\ psf_hist.failed) =>
          /\ psf_hist.handled = psf_hist.nfp
          /\ Len(fitter.output) = Len(psf_hist.pre.output) + 1
          /\ LastExt.XPOS = Column(psf_hist.rows, 1)
          /\ LastExt.YPOS = Column(psf_hist.rows, 2)
          /\ LastExt.SIGMA = Column(psf_hist.rows, 3)
          /\ LastExt.DN = Column(psf_hist.rows, 4)
          /\ LastExt.CHIPROB = ProbColumn(psf_hist.rows)

\* A call that completed although the fit of one of its footprints failed,
\* with another of its footprints fitted.
C1_Witness ==
    /\ psf_pc = "idle" /\ psf_hist.done /\ psf_hist.failed
    /\ psf_hist.nfp >= 2
    /\ Len(psf_hist.rows) >= 1
    /\ Len(LastExt.SIGMA) = Len(psf_hist.rows)

\* C2: when a footprint raises an exception other than RuntimeError the call
\* ends with the fitter as it was at call entry: no extension appended, and
\* self.sigma, self.dn, self.chiprob unchanged.
C2_OtherExceptionLeavesFitterUnchanged ==
    psf_pc = "raised" =>
        /\ fitter.output = psf_hist.pre.output
        /\ fitter.sigma = psf_hist.pre.sigma
        /\ fitter.dn = psf_hist.pre.dn
        /\ fitter.chiprob = psf_hist.pre.chiprob

\* The exception came after a footprint of the same call was fitted, in a
\* fitter that already held rows of an earlier call.
C2_Witness ==
    /\ psf_pc = "raised"
    /\ Len(psf_hist.rows) >= 1
    /\ Len(fitter.sigma) >= 1
    /\ Len(fitter.output) >= 2

(***************************************************************************)
(* Claims about MaskedCCD (checked under SpecMask)                         *)
(***************************************************************************)
\* Whether mask word m has the bit of plane number k set.
HasBit(m, k) == (m \div Pow2(k)) % 2 = 1

Planes == { mask_plane_dict[k] : k \in 1..Len(PlaneNames) }

andMask == ccd.stat_ctrl.andMask
preAndMask == mccd_hist.pre.stat_ctrl.andMask

C5_AddMasksOrsFileMasks ==
    /\ \A a \in MaskAmps, p \in MaskPix, k \in Planes :
          HasBit(ccd.mask[a][p], k) <=>
              \E f \in mccd_hist.added : HasBit(FileMask(f, a, p), k)
    /\ \A a \in MaskAmps, p \in MaskPix : ccd.mask[a][p] < Pow2(Len(PlaneNames))
    /\ mccd_hist.op = "add_masks" =>
          /\ ccd.stat_ctrl = mccd_hist.pre.stat_ctrl
          /\ ccd.image = mccd_hist.pre.image
          /\ \A a \in MaskAmps, p \in MaskPix, k \in Planes :
                HasBit(mccd_hist.pre.mask[a][p], k) => HasBit(ccd.mask[a][p], k)

\* A file added a second time, after another file was added too.
C5_Witness ==
    /\ mccd_hist.op = "add_masks"
    /\ mccd_hist.file \in mccd_hist.pre_added
    /\ Cardinality(mccd_hist.added) >= 2
    /\ \E a \in MaskAmps, p \in MaskPix : ccd.mask[a][p] # 0

\* C6: after setAllMasks the and-mask has the bit of every plane of
\* mask_plane_dict() and is 2**n - 1; a MaskedCCD constructed with mask files
\* is in that state, one constructed without keeps the default and-mask.
C6_SetAllMasksEnablesEveryPlane ==
    /\ (mccd_hist.op = "setAllMasks"
           \/ (mccd_hist.op = "init" /\ mccd_hist.ctor # <<>>)) =>
          /\ \A k \in Planes : HasBit(andMask, k)
          /\ andMask + 1 = Pow2(Cardinality(Planes))
    /\ (mccd_hist.op = "init" /\ mccd_hist.ctor = <<>>) =>
          andMask = DefaultAndMask

\* setAllMasks called on a ccd where only one plane was enabled.
C6_Witness ==
    /\ mccd_hist.op = "setAllMasks"
    /\ preAndMask = getPlaneBitMask("SAT")
    /\ \A k \in Planes : HasBit(andMask, k)

(***************************************************************************)
(* Claims about NonlinearityCorrection (checked under SpecNlc)             *)
(***************************************************************************)
\* Amplifier numbers as __call__ takes them.
AmpNumbers == 1..NumNlcAmps

\* C7: for every amplifier number amp, nlc[amp] is the spline nlc(amp, adu)
\* applies: nlc(amp, adu) == adu*(1 + nlc[amp](adu)).
C7_GetItemIsTheSplineCallApplies ==
    \A amp \in AmpNumbers :
        /\ (nlc_call.op = "getitem" /\ nlc_call.amp = amp) =>
              /\ nlc_ret.exc = "None"
              /\ \A adu \in AduValues :
                    NlcCall(nlc, amp, adu).val = <<[adu |-> adu, spline |-> nlc_ret.val[1]]>>
        /\ (nlc_call.op = "call" /\ nlc_call.amp = amp) =>
              /\ nlc_ret.exc = "None"
              /\ NlcGetItem(nlc, amp).exc = "None"
              /\ nlc_ret.val[1].spline = NlcGetItem(nlc, amp).val[1]

(***************************************************************************)
(* Claims about defect_repair (checked under SpecRepair)                   *)
(***************************************************************************)
\* C8: called with its default arguments, as get_amp_stack and
\* pca_bias_correction call it, defect_repair puts a pixel whose
\* background-subtracted value is below -sigma*stdev in the BAD mask just
\* like a pixel above +sigma*stdev.
C8_DefaultMasksNegativeDefects ==
    (repair.caller # "none" /\ repair.defaults) =>
        \A p \in RepairPix :
            /\ repair.image[p] > repair.sigma * repair.stdev => repair.mask[p]
            /\ repair.image[p] < -(repair.sigma * repair.stdev) => repair.mask[p]

(***************************************************************************)
(* Claims about CCD_bias_PCA (checked under SpecPca)                       *)
(***************************************************************************)
InTraining(i) == \E j \in 1..Len(pca_frame.training_set) : pca_frame.training_set[j] = i

\* C9: self.std_max is the cutoff for inclusion in the training set: a frame
\* whose stdev exceeds self.std_max is excluded, a frame whose stdev is at
\* most self.std_max is included.
C9_StdMaxIsTheCutoff ==
    pca_pc = "fitted" =>
        \A i \in 1..Len(pca_frame.stdevs) :
            /\ pca_frame.stdevs[i] > pca.std_max => ~InTraining(i)
            /\ pca_frame.stdevs[i] <= pca.std_max => InTraining(i)

\* C10: constructed with xstart=None, during and after every compute_pcas
\* call self.xstart is the number of prescan pixels of the sensor of the
\* files of that call; an xstart given at construction is never overwritten.
C10_XstartFollowsTheSensor ==
    /\ (pca_hist.ctor_xstart = None /\ pca_hist.sensor # None) =>
          pca.xstart = <<getBeginX(makeAmplifierGeometry(pca_hist.sensor[1]).imaging)>>
    /\ pca_hist.ctor_xstart # None => pca.xstart = pca_hist.ctor_xstart

\* compute_pcas has returned.
ComputePcasReturned == pca_pc = "idle" /\ pca_frame.ret # None

\* The amps compute_pcas was asked to model (all amps when amps is None).
AmpsModelled == { pca_hist.amps[i] : i \in 1..Len(pca_hist.amps) }

\* C11: after compute_pcas(fits_files, outfile_prefix, amps=A) returns,
\* self[amp] holds a (pcax, pcay) pair for every amp in A, entries of the
\* other amps are as before the call, self.pca_bias_file and the return
\* value name the files made from outfile_prefix, and the pickle is written
\* after the FITS file and after self.pca_bias_file is set, so the pickled
\* object names its bias file and contains every fitted amp.
C11_ComputePcasPostconditions ==
    ComputePcasReturned =>
        LET fits_file == PcaFileName(pca_frame.prefix, "fits")
            pickle_file == PcaFileName(pca_frame.prefix, "pickle")
            written == pca_frame.written
        IN  /\ \A amp \in AmpsModelled :
                  /\ pca.items[amp] # None
                  /\ DOMAIN pca.items[amp][1] = {"pcax", "pcay"}
            /\ \A amp \in PcaAmps \ AmpsModelled :
                  pca.items[amp] = pca_hist.pre_items[amp]
            /\ pca.pca_bias_file = <<fits_file>>
            /\ pca_frame.ret = <<pickle_file, fits_file>>
            /\ Len(written) = 2
            /\ written[1].file = fits_file
            /\ written[1].content.FILENAME = <<fits_file>>
            /\ written[1].content.data = AmpsModelled
            /\ written[2].file = pickle_file
            /\ written[2].content.pca_bias_file = <<fits_file>>
            /\ \A amp \in AmpsModelled : written[2].content.items[amp] # None
            /\ written[2].content = pca

\* A call on one amp has returned with a new model for it, while the other
\* amp keeps the model of an earlier call.
C11_Witness ==
    /\ ComputePcasReturned
    /\ pca_hist.amps = <<1>>
    /\ pca.items[2] # None
    /\ pca_hist.pre_items[1] # None
    /\ pca.items[1] # pca_hist.pre_items[1]

(***************************************************************************)
(* Claims about make_bias_frame (checked under SpecBias)                   *)
(***************************************************************************)
\* term is a bias model computed by pca_bias_correction(amp, image).
IsCorrectionOf(term, amp, image) ==
    /\ Len(term) >= 3
    /\ term[1] = OpBias
    /\ term[2] = amp
    /\ Len(term) = 3 + term[3] + Len(image)
    /\ SubSeq(term, 4 + term[3], Len(term)) = image

BiasAmps == { mbf.amps_arg[i] : i \in 1..Len(mbf.amps_arg) }

\* What make_bias_frame has done when it returned: the frame written to
\* outfile and held by it, the residuals, raw_file left alone.
MakeBiasFrameDone ==
    LET raw == mbf.pre_fs[mbf.raw_file]
        written == mbf.written
    IN  /\ Len(written) >= 1
        /\ written[1].file = mbf.outfile
        /\ \A amp \in BiasAmps :
              IsCorrectionOf(written[1].content[amp], amp, raw[amp])
        /\ \A amp \in PcaAmps \ BiasAmps : written[1].content[amp] = raw[amp]
        /\ mbf.residuals_file = None => Len(written) = 1
        /\ mbf.residuals_file # None =>
              /\ Len(written) = 2
              /\ written[2].file = mbf.residuals_file[1]
              /\ \A amp \in BiasAmps :
                    written[2].content[amp] =
                        Minus(Float(raw[amp]), written[1].content[amp])
        /\ fs[written[Len(written)].file] = written[Len(written)].content
        /\ fs[mbf.outfile] = written[1].content
        /\ \A i \in 1..Len(written) : written[i].file # mbf.raw_file
        /\ fs[mbf.raw_file] = raw

\* raw_file, outfile and residuals_file name different files.
DistinctBiasFiles ==
    /\ mbf.outfile # mbf.raw_file
    /\ mbf.residuals_file # None =>
          /\ mbf.residuals_file[1] # mbf.raw_file
          /\ mbf.residuals_file[1] # mbf.outfile

\* amps names no amp twice.
NoRepeatedAmp == Cardinality(BiasAmps) = Len(mbf.amps_arg)

\* C12 as stated: whenever make_bias_frame has returned, the output frame
\* holds the bias model for every amp in amps and the raw data for the other
\* amps, the residuals file is written only when asked for, after outfile,
\* and holds raw minus bias for every amp in amps, and raw_file is not
\* written.
C12_Original == mbf.returned => MakeBiasFrameDone

\* C12: the same, for a call whose raw_file, outfile and residuals_file name
\* different files and whose amps names no amp twice.
C12_MakeBiasFrameWithDistinctFiles ==
    (mbf.returned /\ DistinctBiasFiles /\ NoRepeatedAmp) => MakeBiasFrameDone

\* A call on one amp with a residuals file has returned.
C12_Witness ==
    /\ mbf.returned
    /\ DistinctBiasFiles
    /\ mbf.amps_arg = <<1>>
    /\ mbf.residuals_file # None
    /\ Len(mbf.written) = 2

(***************************************************************************)
(* Claims about PsfGaussFit.results (checked under SpecPsf)                *)
(***************************************************************************)
\* The fits accumulated so far, one (sigma, dn, chiprob) per fitted footprint,
\* as the rows of the extensions of fitter.output hold them, in order.
RECURSIVE FootprintFits(_)
FootprintFits(k) ==
    IF k > Len(fitter.output) THEN <<>>
    ELSE [j \in 1..Len(fitter.output[k].SIGMA) |->
             [sigma |-> fitter.output[k].SIGMA[j],
              dn |-> fitter.output[k].DN[j],
              chiprob |-> fitter.output[k].CHIPROB[j]]]
         \o FootprintFits(k + 1)

\* entry i of the three returned arrays, together.
ReturnedFits(ret) ==
    [i \in 1..Len(ret.chiprob) |->
        [sigma |-> ret.sigma[i], dn |-> ret.dn[i], chiprob |-> ret.chiprob[i]]]

\* C13: results(min_prob) returns exactly the accumulated fits whose
\* chi-square probability is strictly greater than min_prob: the three arrays
\* have equal length, entry i of each comes from the same fitted footprint,
\* in accumulation order, and a fit with chiprob = min_prob is not returned.
C13_ResultsStrictlyAboveMinProb ==
    psf_hist.results # <<>> =>
        LET min_prob == psf_hist.results[1].min_prob
            ret == psf_hist.results[1].ret
            Above(fit) == fit.chiprob > min_prob
        IN  /\ Len(ret.sigma) = Len(ret.chiprob)
            /\ Len(ret.dn) = Len(ret.chiprob)
            /\ ReturnedFits(ret) = SelectSeq(FootprintFits(1), Above)
            /\ \A i \in 1..Len(ret.chiprob) : ret.chiprob[i] # min_prob

\* results(0.1) has left out a fit with chiprob = 0.1 and one below, and has
\* returned a fit above.
C13_Witness ==
    /\ psf_hist.results # <<>>
    /\ psf_hist.results[1].min_prob = DefaultMinProb
    /\ \E i \in 1..Len(fitter.chiprob) : fitter.chiprob[i] = DefaultMinProb
    /\ \E i \in 1..Len(fitter.chiprob) : fitter.chiprob[i] < DefaultMinProb
    /\ Len(psf_hist.results[1].ret.chiprob) >= 1

(***************************************************************************)
(* Claims about MaskedCCD.bias_image (checked under SpecMaskBias)          *)
(***************************************************************************)
\* C14: bias_image turns a DM-stack failure (LsstCppException) while
\* building the bias image into a MaskedCCDBiasImageException, and when
\* bias_subtracted_image(amp) fails this way the stored image self[amp], like
\* the rest of the object, is as before the call.
C14_BiasImageExceptionLeavesImage ==
    /\ ( /\ mccd_hist.op \in {"bias_image", "bias_subtracted_image"}
         /\ mccd_hist.amp \in MaskAmps
         /\ mccd_hist.dm_exc = "LsstCppException" ) =>
            mccd_ret = "MaskedCCDBiasImageException"
    /\ mccd_ret = "MaskedCCDBiasImageException" =>
          /\ mccd_hist.dm_exc = "LsstCppException"
          /\ ccd = mccd_hist.pre
    /\ ( /\ mccd_hist.op = "bias_subtracted_image"
         /\ mccd_ret = "self[amp]" ) =>
            \E outcome \in BiasOutcomes :
                /\ outcome.exc = "None"
                /\ ccd.image[mccd_hist.amp] =
                      [p \in MaskPix |->
                          mccd_hist.pre.image[mccd_hist.amp][p] - outcome.level]

\* bias_subtracted_image failed with the DM-stack error on an amp whose image
\* an earlier call had subtracted.
C14_Witness ==
    /\ mccd_hist.op = "bias_subtracted_image"
    /\ mccd_ret = "MaskedCCDBiasImageException"
    /\ mccd_hist.nsub >= 1
    /\ ccd.image[mccd_hist.amp] # ImageData[mccd_hist.amp]

(***************************************************************************)
(* Claims about AmplifierGeometry (checked under SpecGeom)                 *)
(***************************************************************************)
\* Boxes include their corners.
getWidth(box) == box.maxX - box.minX + 1

BoxesDisjoint(a, b) ==
    \/ a.maxX < b.minX
    \/ b.maxX < a.minX
    \/ a.maxY < b.minY
    \/ b.maxY < a.minY

BoxInside(a, b) ==
    /\ b.minX <= a.minX
    /\ a.maxX <= b.maxX
    /\ b.minY <= a.minY
    /\ a.maxY <= b.maxY

\* The prescan and the overscans are positive and leave room for an imaging
\* region in the segment.
GeomArgsFit ==
    /\ geom_args.prescan > 0
    /\ geom_args.serial_overscan > 0
    /\ geom_args.parallel_overscan > 0
    /\ geom_args.prescan + geom_args.serial_overscan < geom_args.detxsize \div nsegx
    /\ geom_args.parallel_overscan < geom_args.detysize \div nsegy

\* C15: for every AmplifierGeometry whose prescan, serial overscan and
\* parallel overscan are positive and smaller than the segment, the prescan,
\* imaging, serial-overscan and parallel-overscan boxes are pairwise disjoint
\* and inside full_segment, and the widths of prescan, imaging and serial
\* overscan sum to naxis1.
C15_RegionBoxesDisjoint ==
    (geom # None /\ GeomArgsFit) =>
        LET g == geom[1]
            boxes == <<g.prescan, g.imaging, g.serial_overscan, g.parallel_overscan>>
        IN  /\ \A i, j \in 1..4 : i # j => BoxesDisjoint(boxes[i], boxes[j])
            /\ \A i \in 1..4 : BoxInside(boxes[i], g.full_segment)
            /\ getWidth(g.prescan) + getWidth(g.imaging)
                  + getWidth(g.serial_overscan) = g.naxis1

(***************************************************************************)
(* Claims about the bright pixels task (checked under SpecBright)          *)
(***************************************************************************)
\* The positions in the event log of the events of one kind.
EventsOf(kind) == { k \in 1..Len(bpt.events) : bpt.events[k].ev = kind }

\* The amps of the events of one kind, in log order.
AmpsOf(kind) ==
    LET IsKind(e) == e.ev = kind
        sel == SelectSeq(bpt.events, IsKind)
    IN  [k \in 1..Len(sel) |-> sel[k].amp]

RECURSIVE SumValues(_)
SumValues(seq) == IF seq = <<>> THEN 0 ELSE Head(seq).value + SumValues(Tail(seq))

\* C16: the amplifiers are processed one after another in allAmps order; the
\* median dark file is written before any mask is generated; each amp's
\* numBrightPixels segment result is recorded exactly once; the CCD-level
\* numBrightPixels is recorded only after every segment result and equals
\* the sum of the per-segment counts.
C16_BrightPixelsTaskOrder ==
    /\ AmpsOf("median") = SubSeq(BrightAmps, 1, Len(AmpsOf("median")))
    /\ AmpsOf("generate_mask") = SubSeq(BrightAmps, 1, Len(AmpsOf("generate_mask")))
    /\ AmpsOf("seg_result") = SubSeq(BrightAmps, 1, Len(AmpsOf("seg_result")))
    /\ \A k \in EventsOf("seg_result") :
          /\ k > 1
          /\ bpt.events[k - 1].ev = "generate_mask"
          /\ bpt.events[k - 1].amp = bpt.events[k].amp
    /\ \A g \in EventsOf("generate_mask") :
          \E w \in EventsOf("write_median") :
              /\ w < g
              /\ bpt.events[w].val = Len(BrightAmps)
    /\ [k \in 1..Len(bpt.seg_results) |-> bpt.seg_results[k].amp]
          = AmpsOf("seg_result")
    /\ bpt.pc = "done" => AmpsOf("seg_result") = BrightAmps
    /\ Len(bpt.ccd_results) <= 1
    /\ bpt.ccd_results # <<>> =>
          /\ bpt.pc = "done"
          /\ AmpsOf("seg_result") = BrightAmps
          /\ \A c \in EventsOf("ccd_result"), r \in EventsOf("seg_result") : r < c
          /\ bpt.ccd_results[1].value = SumValues(bpt.seg_results)

\* The task has finished with bright pixels found in more than one segment.
C16_Witness ==
    /\ bpt.pc = "done"
    /\ bpt.ccd_results # <<>>
    /\ bpt.ccd_results[1].value >= 2
    /\ \E k \in 1..Len(bpt.seg_results) :
          /\ bpt.seg_results[k].value > 0
          /\ bpt.seg_results[k].value < bpt.ccd_results[1].value

====
